---- MODULE Spec2Model ----
(***************************************************************************)
(* Model of the "Copy Reference" command of out/extension.js: the command  *)
(* handler handleCopyReference with its two suspension points (the symbol  *)
(* request and the clipboard write), the two symbol-tree searches, and the *)
(* string formatting of the reference, character by character.             *)
(***************************************************************************)
EXTENDS Integers, Sequences, FiniteSets, TLC

VARIABLES
    clipboard,   \* the system clipboard's text
    active,      \* the host's active editor (vscode.window.activeTextEditor)
    pc,          \* per invocation: where the async handler is suspended
    frame,       \* per invocation: the locals of handleCopyReference and callees
    writes,      \* the clipboard writes that completed, oldest first
    sForest,     \* search harness: the symbol forest given to the searches
    sPos,        \* search harness: the position
    sPc,         \* search harness: "input" or "searched"
    sHier        \* search harness: result of findSymbolHierarchy

vars == <<clipboard, active, pc, frame, writes, sForest, sPos, sPc, sHier>>

flowVars == <<clipboard, active, pc, frame, writes>>

searchVars == <<sForest, sPos, sPc, sHier>>

----------------------------------------------------------------------------
(* Bounds *)

MaxPos == 1

MaxNodes == 3

MaxFaults == 1

----------------------------------------------------------------------------
(* Strings, as the JavaScript string methods the code uses compute them *)

CharAt(s, i) == SubSeq(s, i, i)

EndsWith(s, suffix) ==
    /\ Len(s) >= Len(suffix)
    /\ SubSeq(s, Len(s) - Len(suffix) + 1, Len(s)) = suffix

StartsWith(s, prefix) ==
    /\ Len(s) >= Len(prefix)
    /\ SubSeq(s, 1, Len(prefix)) = prefix

RECURSIVE ReplaceAllChar(_, _, _)
\* s.replace(/c/g, to) for a one-character pattern c
ReplaceAllChar(s, c, to) ==
    IF Len(s) = 0 THEN ""
    ELSE (IF CharAt(s, 1) = c THEN to ELSE CharAt(s, 1))
             \o ReplaceAllChar(SubSeq(s, 2, Len(s)), c, to)

\* s.replace(/\.py$/, '')
StripPySuffix(s) ==
    IF EndsWith(s, ".py") THEN SubSeq(s, 1, Len(s) - 3) ELSE s

RECURSIVE LastIndexOf(_, _, _)
\* the largest index <= i at which s has the character c, 0 when there is none
LastIndexOf(s, c, i) ==
    IF i = 0 THEN 0
    ELSE IF CharAt(s, i) = c THEN i
    ELSE LastIndexOf(s, c, i - 1)

\* uri.path.split('/').pop() || ''
LastSegment(path) ==
    SubSeq(path, LastIndexOf(path, "/", Len(path)) + 1, Len(path))

\* fileName.replace(/\.[^/.]+$/, ''): the last dot and what follows it, when
\* at least one character follows it
StripExtension(fileName) ==
    LET k == LastIndexOf(fileName, ".", Len(fileName))
    IN  IF k > 0 /\ k < Len(fileName) THEN SubSeq(fileName, 1, k - 1) ELSE fileName

getFileNameWithoutExtension(path) == StripExtension(LastSegment(path))

RECURSIVE Join(_, _)
\* parts.join(separator)
Join(parts, separator) ==
    IF Len(parts) = 0 THEN ""
    ELSE IF Len(parts) = 1 THEN parts[1]
    ELSE parts[1] \o separator \o Join(Tail(parts), separator)

----------------------------------------------------------------------------
(* Symbols: name, range (inclusive on both ends), ordered children *)

Positions == 0..MaxPos

Ranges == {r \in [lo : Positions, hi : Positions] : r.lo <= r.hi}

Contains(range, position) == range.lo <= position /\ position <= range.hi

Sym(name, lo, hi, children) ==
    [name |-> name, range |-> [lo |-> lo, hi |-> hi], children |-> children]

RECURSIVE searchSymbols(_, _)
\* the symbols pushed on `hierarchy` by searchSymbols(symbolList)
searchSymbols(symbolList, position) ==
    IF Len(symbolList) = 0 THEN <<>>
    ELSE LET symbol == Head(symbolList)
         IN  IF Contains(symbol.range, position)
             THEN <<symbol>> \o (IF Len(symbol.children) > 0
                                 THEN searchSymbols(symbol.children, position)
                                 ELSE <<>>)
             ELSE searchSymbols(Tail(symbolList), position)

RECURSIVE searchSymbolsNoReturn(_, _)
\* searchSymbols without its `return true`: the loop goes on to the siblings
searchSymbolsNoReturn(symbolList, position) ==
    IF Len(symbolList) = 0 THEN <<>>
    ELSE LET symbol == Head(symbolList)
         IN  (IF Contains(symbol.range, position)
              THEN <<symbol>> \o searchSymbolsNoReturn(symbol.children, position)
              ELSE <<>>)
             \o searchSymbolsNoReturn(Tail(symbolList), position)

findSymbolHierarchyNoReturn(symbols, position) ==
    searchSymbolsNoReturn(symbols, position)

findSymbolHierarchy(symbols, position) == searchSymbols(symbols, position)

RECURSIVE findSymbolByName(_, _)
\* <<symbol>> for the match, <<>> for null
findSymbolByName(symbols, name) ==
    IF Len(symbols) = 0 THEN <<>>
    ELSE LET symbol == Head(symbols)
         IN  IF symbol.name = name THEN <<symbol>>
             ELSE LET childMatch == IF Len(symbol.children) > 0
                                    THEN findSymbolByName(symbol.children, name)
                                    ELSE <<>>
                  IN  IF childMatch # <<>> THEN childMatch
                      ELSE findSymbolByName(Tail(symbols), name)

----------------------------------------------------------------------------
(* The host: workspace folders, as vscode.workspace answers for one root *)

WorkspaceRoot == "/ws"

\* vscode.workspace.getWorkspaceFolder(uri) is defined
getWorkspaceFolder(path) == StartsWith(path, WorkspaceRoot \o "/")

\* vscode.workspace.asRelativePath(uri) in a single-root workspace
asRelativePath(path) ==
    IF getWorkspaceFolder(path)
    THEN SubSeq(path, Len(WorkspaceRoot) + 2, Len(path))
    ELSE path

----------------------------------------------------------------------------
(* Reference formatting. A document is [lang, path, content]; content is   *)
(* what the two content regular expressions capture ("" when no match).    *)

buildPythonModulePath(document, fileName) ==
    IF getWorkspaceFolder(document.path)
    THEN StripPySuffix(ReplaceAllChar(asRelativePath(document.path), "/", "."))
    ELSE fileName

extractJvmPackage(fileContent, fileName) ==
    IF fileContent.package # "" THEN fileContent.package \o "." \o fileName
    ELSE fileName

extractCSharpNamespace(fileContent, fileName) ==
    IF fileContent.namespace # "" THEN fileContent.namespace \o "." \o fileName
    ELSE fileName

extractTypeScriptModule(fileContent, fileName) == fileName

extractNamespacePrefix(document) ==
    LET languageId == document.lang
        fileContent == document.content
        fileName == getFileNameWithoutExtension(document.path)
    IN  CASE languageId = "python" -> buildPythonModulePath(document, fileName)
          [] languageId \in {"java", "kotlin", "scala"} ->
                 extractJvmPackage(fileContent, fileName)
          [] languageId = "csharp" -> extractCSharpNamespace(fileContent, fileName)
          [] languageId \in {"typescript", "javascript"} ->
                 extractTypeScriptModule(fileContent, fileName)
          [] OTHER -> fileName

getLanguageSeparator(languageId) ==
    IF languageId \in {"cpp", "c"} THEN "::" ELSE "."

SymbolNames(symbolPath) == [k \in 1..Len(symbolPath) |-> symbolPath[k].name]

buildCompleteReference(document, symbolPath) ==
    LET namespacePrefix == extractNamespacePrefix(document)
        parts == (IF namespacePrefix # "" THEN <<namespacePrefix>> ELSE <<>>)
                     \o SymbolNames(symbolPath)
    IN  Join(parts, getLanguageSeparator(document.lang))

RECURSIVE IsBlank(_)
\* word.trim().length === 0
IsBlank(word) ==
    \/ Len(word) = 0
    \/ CharAt(word, 1) = " " /\ IsBlank(SubSeq(word, 2, Len(word)))

\* "" stands for null
buildSimpleFallbackReference(document, word) ==
    IF IsBlank(word) THEN ""
    ELSE IF document.lang = "python"
    THEN buildPythonModulePath(document, getFileNameWithoutExtension(document.path))
             \o "." \o word
    ELSE getFileNameWithoutExtension(document.path)
             \o getLanguageSeparator(document.lang) \o word

buildFallbackReference(document, word) ==
    LET fileName == getFileNameWithoutExtension(document.path)
        separator == getLanguageSeparator(document.lang)
    IN  IF document.lang = "python"
        THEN buildPythonModulePath(document, fileName) \o "." \o word
        ELSE fileName \o separator \o word

\* the symbol list generateFullReference hands to buildCompleteReference,
\* <<>> when it takes buildFallbackReference instead
ReferenceSymbols(symbols, position, word) ==
    IF Len(symbols) = 0 THEN <<>>
    ELSE LET symbolPath == findSymbolHierarchy(symbols, position)
         IN  IF Len(symbolPath) = 0 THEN findSymbolByName(symbols, word)
             ELSE symbolPath

\* generateFullReference from its line 81 on: `symbols` is <<>> for null or []
generateFullReference(document, position, word, symbols) ==
    LET refSymbols == ReferenceSymbols(symbols, position, word)
    IN  IF Len(refSymbols) = 0 THEN buildFallbackReference(document, word)
        ELSE buildCompleteReference(document, refSymbols)

----------------------------------------------------------------------------
(* Inputs of the command flow *)

NoContent == [package |-> "", namespace |-> ""]

Contents == {NoContent, [package |-> "com.x", namespace |-> ""]}

PythonPaths ==
    {"/ws/pkg/sub/test_mod.py", "/ws/pkg/__init__.py", "/ws/__init__.py",
     "/tmp/scratch.py", "/ws/a/b.py"}

OtherPaths == {"/ws/src/Main.java", "/tmp/scratch.py"}

FlowPositions == {0, 1, 2}

\* the words the host may report at the cursor; "" is "no word range"
Words == {"test_it", "setup", "run", "helper", "x"}

ClassForest == <<Sym("TestThing", 1, 2, <<Sym("test_it", 2, 2, <<>>)>>)>>

FuncForest ==
    <<Sym("setup", 0, 0, <<>>), Sym("run", 1, 1, <<>>), Sym("helper", 1, 1, <<>>)>>

\* what the symbol provider resolves to: undefined, or a list (maybe empty)
Responses ==
    {[defined |-> FALSE, list |-> <<>>]}
        \cup [defined : {TRUE}, list : {<<>>, ClassForest, FuncForest}]

NoEditor ==
    [editor |-> FALSE, lang |-> "", path |-> "", content |-> NoContent,
     pos |-> 0, word |-> ""]

Editors ==
    {NoEditor}
        \cup [editor : {TRUE}, lang : {"python"}, path : PythonPaths,
              content : {NoContent}, pos : FlowPositions, word : Words \cup {""}]
        \cup [editor : {TRUE}, lang : {"java", "cpp", "plaintext"}, path : OtherPaths,
              content : Contents, pos : FlowPositions, word : Words \cup {""}]

\* the editors of the two-invocation specification
ConcEditors ==
    [editor : {TRUE}, lang : {"python", "cpp"}, path : {"/ws/a/b.py", "/tmp/scratch.py"},
     content : {NoContent}, pos : {0, 2}, word : {"run", "x", ""}]

\* the host calls that may raise
FaultKinds ==
    {"document", "word", "symbols", "workspace", "clipboard", "info", "warn", "error"}

FaultSets == {F \in SUBSET FaultKinds : Cardinality(F) <= MaxFaults}

Notice(kind, text) == [kind |-> kind, text |-> text]

IdleFrame ==
    [ed |-> NoEditor, faults |-> {}, thrownAt |-> {}, clipAtStart |-> "",
     symbolsRequested |-> FALSE, response |-> [defined |-> FALSE, list |-> <<>>],
     refSymbols |-> <<>>, prefix |-> "", reference |-> "", pending |-> "",
     awaitOk |-> TRUE, wrote |-> <<>>, notices |-> <<>>, outcome |-> "pending",
     overlaps |-> {}]

----------------------------------------------------------------------------
(* The command handler, one action per stretch between suspension points *)

\* the active editor re-read at the time of use
CurrentEditor(i) == active

\* the document, position and word an invocation holds in its own constants
CapturedEditor(i) == frame[i].ed

\* a catch block that rethrows
CatchRethrow(f, kind) ==
    [f EXCEPT !.thrownAt = @ \cup {kind}, !.outcome = "rejected"]

\* the catch block of handleCopyReference, entered because `kind` raised
Catch(f, kind) ==
    IF "error" \in f.faults
    THEN [f EXCEPT !.thrownAt = @ \cup {kind, "error"}, !.outcome = "rejected"]
    ELSE [f EXCEPT !.thrownAt = @ \cup {kind},
                   !.notices = Append(@, Notice("error",
                                   "Failed to copy reference. Please try again.")),
                   !.outcome = "resolved"]

\* showWarningMessage on line 58, inside the try block
WarnNoReference(f) ==
    IF "warn" \in f.faults THEN Catch(f, "warn")
    ELSE [f EXCEPT !.notices = Append(@, Notice("warning",
                          "Could not determine reference path for this symbol")),
                   !.outcome = "resolved"]

\* a notice that leaves the reference out
CopiedNoticeBare(prefix, reference) == prefix

\* the text of the notice shown after a clipboard write
CopiedNotice(prefix, reference) == prefix \o reference

HasWordRangeAlways(ed) == TRUE

\* document.getWordRangeAtPosition(position) is not undefined
HasWordRange(ed) == ed.word # ""

\* lines 42-59 up to the clipboard call, `reference` being what
\* generateFullReference returned ("" for null); .awaiting is TRUE when the
\* handler suspends at clipboard.writeText
AfterReference(f, ed, reference) ==
    IF reference # ""
    THEN [f |-> [f EXCEPT !.reference = reference, !.pending = "Copied: "],
          awaiting |-> TRUE]
    ELSE IF HasWordRange(ed) /\ buildSimpleFallbackReference(ed, ed.word) # ""
    THEN [f |-> [f EXCEPT !.reference = buildSimpleFallbackReference(ed, ed.word),
                          !.pending = "Copied (fallback): "],
          awaiting |-> TRUE]
    ELSE [f |-> WarnNoReference(f), awaiting |-> FALSE]

\* history: the invocations that are in flight
Suspended == {j \in DOMAIN pc : pc[j] \in {"awaitSymbols", "awaitClipboard", "resume"}}

\* lines 31-41 and generateFullReference up to the symbol request
Start(i, ed, faults) ==
    /\ active' = ed
    /\ LET f == [IdleFrame EXCEPT !.ed = ed, !.faults = faults,
                                  !.clipAtStart = clipboard,
                                  !.overlaps = Suspended]
       IN  IF ~ed.editor
           THEN \* line 33, outside the try block
                /\ frame' = [frame EXCEPT ![i] =
                       IF "warn" \in faults
                       THEN [f EXCEPT !.thrownAt = {"warn"}, !.outcome = "rejected"]
                       ELSE [f EXCEPT !.notices = <<Notice("warning",
                                                     "No active editor found")>>,
                                      !.outcome = "resolved"]]
                /\ pc' = [pc EXCEPT ![i] = "done"]
           ELSE IF "document" \in faults
           THEN \* line 39, outside the try block
                /\ frame' = [frame EXCEPT ![i] =
                       [f EXCEPT !.thrownAt = {"document"}, !.outcome = "rejected"]]
                /\ pc' = [pc EXCEPT ![i] = "done"]
           ELSE IF "word" \in faults
           THEN \* line 74 raises
                /\ frame' = [frame EXCEPT ![i] = Catch(f, "word")]
                /\ pc' = [pc EXCEPT ![i] = "done"]
           ELSE IF ~HasWordRange(ed)
           THEN \* line 76: null, then lines 46-58
                LET r == AfterReference(f, ed, "")
                IN  /\ frame' = [frame EXCEPT ![i] = r.f]
                    /\ pc' = [pc EXCEPT ![i] =
                                  IF r.awaiting THEN "awaitClipboard" ELSE "done"]
           ELSE \* line 106: the symbol request is made
                /\ frame' = [frame EXCEPT ![i] = [f EXCEPT !.symbolsRequested = TRUE]]
                /\ pc' = [pc EXCEPT ![i] = "awaitSymbols"]
    /\ UNCHANGED <<clipboard, writes, searchVars>>

\* the command callback is called, with the host in one of the given conditions
Invoke(i, editors, faultSets) ==
    /\ pc[i] = "idle"
    /\ \E ed \in editors, faults \in faultSets : Start(i, ed, faults)

\* getDocumentSymbols from line 107 (or its catch), then generateFullReference
\* from line 81 and handleCopyReference up to the clipboard call
SymbolsReturned(i, response) ==
    /\ pc[i] = "awaitSymbols"
    /\ "symbols" \in frame[i].faults => response = [defined |-> FALSE, list |-> <<>>]
    /\ LET ed == CapturedEditor(i)
           raised == "symbols" \in frame[i].faults
           symbols == IF raised \/ ~response.defined THEN <<>> ELSE response.list
           f == [frame[i] EXCEPT !.response = response,
                                 !.thrownAt = IF raised THEN @ \cup {"symbols"} ELSE @]
       IN  IF ed.lang = "python" /\ "workspace" \in f.faults
           THEN \* buildPythonModulePath raises at line 217
                /\ frame' = [frame EXCEPT ![i] = Catch(f, "workspace")]
                /\ pc' = [pc EXCEPT ![i] = "done"]
           ELSE LET g == [f EXCEPT
                            !.refSymbols = ReferenceSymbols(symbols, ed.pos, ed.word),
                            !.prefix = extractNamespacePrefix(ed)]
                    r == AfterReference(g, ed,
                             generateFullReference(ed, ed.pos, ed.word, symbols))
                IN  /\ frame' = [frame EXCEPT ![i] = r.f]
                    /\ pc' = [pc EXCEPT ![i] =
                                  IF r.awaiting THEN "awaitClipboard" ELSE "done"]
    /\ UNCHANGED <<clipboard, active, writes, searchVars>>

\* the host performs (or rejects) vscode.env.clipboard.writeText
ClipboardWrite(i) ==
    /\ pc[i] = "awaitClipboard"
    /\ IF "clipboard" \in frame[i].faults
       THEN /\ frame' = [frame EXCEPT ![i].awaitOk = FALSE]
            /\ UNCHANGED <<clipboard, writes>>
       ELSE /\ clipboard' = frame[i].reference
            /\ writes' = Append(writes, [by |-> i, text |-> frame[i].reference])
            /\ frame' = [frame EXCEPT ![i].wrote = Append(@, frame[i].reference)]
    /\ pc' = [pc EXCEPT ![i] = "resume"]
    /\ UNCHANGED <<active, searchVars>>

\* lines 44 / 54-55, or the catch block when the write was rejected
Resume(i) ==
    /\ pc[i] = "resume"
    /\ LET f == frame[i]
       IN  frame' = [frame EXCEPT ![i] =
               IF ~f.awaitOk THEN Catch(f, "clipboard")
               ELSE IF "info" \in f.faults THEN Catch(f, "info")
               ELSE [f EXCEPT !.notices = Append(@, Notice("info",
                                     CopiedNotice(f.pending, f.reference))),
                              !.outcome = "resolved"]]
    /\ pc' = [pc EXCEPT ![i] = "done"]
    /\ UNCHANGED <<clipboard, active, writes, searchVars>>

----------------------------------------------------------------------------
(* Specifications *)

InitSearchIdle ==
    /\ sForest = <<>>
    /\ sPos = 0
    /\ sPc = "off"
    /\ sHier = <<>>

InitFlow(procs) ==
    /\ clipboard = "previous"
    /\ active = NoEditor
    /\ pc = [i \in procs |-> "idle"]
    /\ frame = [i \in procs |-> IdleFrame]
    /\ writes = <<>>

\* one invocation of the command, any editor, any raising host call
Init == InitFlow({1}) /\ InitSearchIdle

Next ==
    \/ \E i \in DOMAIN pc : Invoke(i, Editors, FaultSets)
    \/ \E i \in DOMAIN pc, response \in Responses : SymbolsReturned(i, response)
    \/ \E i \in DOMAIN pc : ClipboardWrite(i)
    \/ \E i \in DOMAIN pc : Resume(i)

Spec == Init /\ [][Next]_vars

\* two invocations, the second free to start while the first is suspended
InitConc == InitFlow({1, 2}) /\ InitSearchIdle

NextConc ==
    \/ \E i \in DOMAIN pc : Invoke(i, ConcEditors, {{}})
    \/ \E i \in DOMAIN pc, response \in Responses : SymbolsReturned(i, response)
    \/ \E i \in DOMAIN pc : ClipboardWrite(i)
    \/ \E i \in DOMAIN pc : Resume(i)

SpecConc == InitConc /\ [][NextConc]_vars

----------------------------------------------------------------------------
(* The hierarchy search on every forest of at most MaxNodes symbols *)

\* the names of the symbols of one level, in order
SiblingNames == <<"a", "b", "c", "d", "e", "f">>

\* the forests of exactly n symbols, every range drawn from Ranges
ForestsOfSize[n \in 0..MaxNodes] ==
    IF n = 0 THEN {<<>>}
    ELSE UNION {
           {<<[name |-> "", range |-> r, children |-> c]>> \o rest :
                r \in Ranges, c \in ForestsOfSize[k - 1], rest \in ForestsOfSize[n - k]}
           : k \in 1..n}

RECURSIVE Named(_)
\* the forest with the symbols of each level named in order
Named(forest) ==
    [k \in 1..Len(forest) |->
        [forest[k] EXCEPT !.name = SiblingNames[k], !.children = Named(@)]]

Forests == UNION {{Named(forest) : forest \in ForestsOfSize[n]} : n \in 0..MaxNodes}

InitSearch ==
    /\ InitFlow({1})
    /\ sForest \in Forests
    /\ sPos \in Positions
    /\ sPc = "input"
    /\ sHier = <<>>

Search ==
    /\ sPc = "input"
    /\ sHier' = findSymbolHierarchy(sForest, sPos)
    /\ sPc' = "searched"
    /\ UNCHANGED <<sForest, sPos, flowVars>>

NextSearch == Search

SpecSearch == InitSearch /\ [][NextSearch]_vars

----------------------------------------------------------------------------
(* What the specification expects, stated independently of the code *)

InitializerName == "__init__.py"

\* section 4.3 of the specification: the module path of a file
SpecModulePath(path) ==
    IF ~getWorkspaceFolder(path) THEN getFileNameWithoutExtension(path)
    ELSE LET rel == asRelativePath(path)
         IN  IF rel = InitializerName THEN getFileNameWithoutExtension(path)
             ELSE IF EndsWith(rel, "/" \o InitializerName)
             THEN SubSeq(rel, 1, Len(rel) - Len(InitializerName) - 1)
             ELSE StripExtension(rel)

RECURSIVE PreorderPath(_, _)
\* section 4.2: the path, root first, to the first symbol in pre-order whose
\* name is `name`; <<>> when there is none
PreorderPath(symbols, name) ==
    IF Len(symbols) = 0 THEN <<>>
    ELSE LET symbol == Head(symbols)
             below == PreorderPath(symbol.children, name)
         IN  IF symbol.name = name THEN <<symbol>>
             ELSE IF below # <<>> THEN <<symbol>> \o below
             ELSE PreorderPath(Tail(symbols), name)

\* the index of the first symbol of the list whose range contains the
\* position, 0 when there is none
FirstContaining(symbolList, position) ==
    LET hits == {k \in 1..Len(symbolList) : Contains(symbolList[k].range, position)}
    IN  IF hits = {} THEN 0 ELSE CHOOSE k \in hits : \A m \in hits : k <= m

\* the symbol list of a provider response as generateFullReference sees it
SymbolsOf(f) ==
    IF "symbols" \in f.faults \/ ~f.response.defined THEN <<>> ELSE f.response.list

Finished(i) == pc[i] = "done"

\* a reference built from the symbol provider's answer has been copied
Built(i) == frame[i].symbolsRequested /\ frame[i].wrote # <<>>

----------------------------------------------------------------------------
(* C1 *)

C1_Case(i) ==
    LET f == frame[i]
    IN  /\ Finished(i) /\ f.thrownAt = {} /\ f.ed.editor
        /\ f.ed.lang = "python" /\ getWorkspaceFolder(f.ed.path)
        /\ LastSegment(f.ed.path) # InitializerName
        /\ HasWordRange(f.ed)
        /\ findSymbolHierarchy(SymbolsOf(f), f.ed.pos) # <<>>

\* C1: for a Python file inside the workspace root and a cursor inside a
\* non-empty chain of symbols, the clipboard receives the workspace-relative
\* path without extension, separators unchanged, then every symbol name of the
\* chain, outermost first, all joined by "::".
C1_ReferenceFormat ==
    \A i \in DOMAIN pc :
        C1_Case(i) =>
            frame[i].wrote =
                <<Join(<<StripExtension(asRelativePath(frame[i].ed.path))>>
                           \o SymbolNames(findSymbolHierarchy(SymbolsOf(frame[i]),
                                                              frame[i].ed.pos)),
                       "::")>>

----------------------------------------------------------------------------
(* C2 *)

\* C2: invoked on an editor whose language is not Python, the flow ends with
\* a warning notice and never writes the clipboard.
C2_NonPythonUnsupported ==
    \A i \in DOMAIN pc :
        (frame[i].ed.editor /\ frame[i].ed.lang # "python" /\ pc[i] # "idle") =>
            /\ frame[i].wrote = <<>>
            /\ pc[i] # "awaitClipboard"
            /\ (Finished(i) /\ frame[i].thrownAt = {}) =>
                   (Len(frame[i].notices) = 1 /\ frame[i].notices[1].kind = "warning")

----------------------------------------------------------------------------
(* C3 *)

\* C3: for a package initializer inside the workspace root the module-path
\* segment of the reference is the package directory, and the bare file name
\* "__init__" when the initializer lies directly in the root.
C3_InitializerStripped ==
    \A i \in DOMAIN pc :
        (Built(i) /\ frame[i].ed.lang = "python" /\ getWorkspaceFolder(frame[i].ed.path)
             /\ LastSegment(frame[i].ed.path) = InitializerName) =>
            /\ frame[i].prefix = SpecModulePath(frame[i].ed.path)
            /\ StartsWith(frame[i].reference, SpecModulePath(frame[i].ed.path) \o "::")

----------------------------------------------------------------------------
(* C4 *)

C4_Case(i) ==
    /\ Built(i)
    /\ SymbolsOf(frame[i]) # <<>>
    /\ findSymbolHierarchy(SymbolsOf(frame[i]), frame[i].ed.pos) = <<>>

\* C4: when the hierarchy search is empty, the fallback name search selects
\* the first symbol in pre-order named like the word at the cursor and the
\* reference is built from the path from its root ancestor down to it; when no
\* symbol has that name the search has no result.
C4_FallbackPath ==
    \A i \in DOMAIN pc :
        C4_Case(i) =>
            frame[i].refSymbols = PreorderPath(SymbolsOf(frame[i]), frame[i].ed.word)

----------------------------------------------------------------------------
(* C5 *)

\* the list is the chain of first containing symbols, level by level
IsFirstMatchChain(symbols, position, hierarchy) ==
    /\ \A k \in 1..Len(hierarchy) : Contains(hierarchy[k].range, position)
    /\ (hierarchy = <<>>) <=> (FirstContaining(symbols, position) = 0)
    /\ hierarchy # <<>> =>
           /\ hierarchy[1] = symbols[FirstContaining(symbols, position)]
           /\ \A k \in 2..Len(hierarchy) :
                  LET siblings == hierarchy[k - 1].children
                  IN  /\ FirstContaining(siblings, position) # 0
                      /\ hierarchy[k] = siblings[FirstContaining(siblings, position)]
           /\ FirstContaining(hierarchy[Len(hierarchy)].children, position) = 0

\* C5: findSymbolHierarchy returns only symbols whose range contains the
\* position; the list is empty exactly when no root contains it; otherwise it
\* starts at the first containing root, continues with the first containing
\* child of the preceding element, and ends at a symbol none of whose children
\* contains the position.
C5_HierarchyIsFirstMatchChain ==
    sPc = "searched" => IsFirstMatchChain(sForest, sPos, sHier)

\* a chain of two found after skipping a root that does not contain the position
C5_Witness ==
    /\ sPc = "searched"
    /\ Len(sForest) = 2
    /\ ~Contains(sForest[1].range, sPos)
    /\ Len(sHier) = 2

----------------------------------------------------------------------------
(* C6 *)

C6_Case(i) ==
    LET f == frame[i]
    IN  /\ Finished(i) /\ f.ed.editor /\ f.ed.lang = "python" /\ HasWordRange(f.ed)
        /\ f.thrownAt \subseteq {"symbols"}
        /\ f.faults \subseteq {"symbols"}
        /\ \/ SymbolsOf(f) = <<>>
           \/ /\ findSymbolHierarchy(SymbolsOf(f), f.ed.pos) = <<>>
              /\ PreorderPath(SymbolsOf(f), f.ed.word) = <<>>

\* C6: with a word at the cursor of a Python file and no symbols (request
\* raised, nothing or an empty list returned) or no symbol found by either
\* search, the flow copies module path, "::" and the raw word, and shows an
\* informational notice.
C6_RawWordFallback ==
    \A i \in DOMAIN pc :
        C6_Case(i) =>
            /\ frame[i].outcome = "resolved"
            /\ frame[i].wrote = <<SpecModulePath(frame[i].ed.path) \o "::" \o frame[i].ed.word>>
            /\ Len(frame[i].notices) = 1
            /\ frame[i].notices[1].kind = "info"

----------------------------------------------------------------------------
(* C7 *)

\* no word range, and neither the document, the word lookup nor the warning raises
C7_Case(i) ==
    /\ pc[i] # "idle" /\ frame[i].ed.editor /\ frame[i].ed.word = ""
    /\ frame[i].faults \cap {"document", "word", "warn"} = {}

\* C7: when the host reports no word range at the cursor, the invocation ends
\* with a warning notice, writes nothing to the clipboard and never requests
\* the document symbols.
C7_NoWordNoWrite ==
    \A i \in DOMAIN pc :
        C7_Case(i) =>
            /\ Finished(i)
            /\ ~frame[i].symbolsRequested
            /\ frame[i].wrote = <<>>
            /\ clipboard = frame[i].clipAtStart
            /\ frame[i].outcome = "resolved"
            /\ Len(frame[i].notices) = 1
            /\ frame[i].notices[1].kind = "warning"

C7_Witness ==
    \E i \in DOMAIN pc :
        /\ C7_Case(i) /\ Finished(i)
        /\ frame[i].ed.lang = "python"
        /\ frame[i].notices =
               <<Notice("warning", "Could not determine reference path for this symbol")>>

----------------------------------------------------------------------------
(* C8 *)

ErrorNotices(f) == {k \in 1..Len(f.notices) : f.notices[k].kind = "error"}

C8_Case(i) ==
    /\ Finished(i)
    /\ frame[i].thrownAt \cap {"word", "workspace", "clipboard"} # {}
    /\ "error" \notin frame[i].thrownAt

----------------------------------------------------------------------------
(* C9 *)

\* what an invocation writes when it runs alone with its editor and response
LoneWrites(f) ==
    IF ~f.ed.editor \/ f.ed.word = "" THEN <<>>
    ELSE <<generateFullReference(f.ed, f.ed.pos, f.ed.word, SymbolsOf(f))>>

\* C9: two overlapping invocations do not affect each other: each ends in
\* its own terminal state having written exactly the reference it writes when
\* run alone, and the clipboard holds the text of the write that completed
\* last.
C9_IndependentInvocations ==
    /\ \A i \in DOMAIN pc :
           Finished(i) =>
               /\ frame[i].wrote = LoneWrites(frame[i])
               /\ frame[i].outcome = "resolved"
               /\ Len(frame[i].notices) = 1
    /\ clipboard = IF writes = <<>> THEN "previous" ELSE writes[Len(writes)].text

\* the second invocation started while the first was suspended, wrote first,
\* and the first one's different reference is what the clipboard holds
C9_Witness ==
    /\ \A i \in DOMAIN pc : Finished(i)
    /\ frame[2].overlaps = {1}
    /\ Len(writes) = 2
    /\ writes[1].by = 2
    /\ writes[2].by = 1
    /\ writes[1].text # writes[2].text
    /\ clipboard = LoneWrites(frame[1])[1]

----------------------------------------------------------------------------
(* C10 *)

C10_Case(i) == Finished(i) /\ frame[i].thrownAt = {}

\* C10: when no host call raises, an invocation shows exactly one notice and
\* writes the clipboard at most once; it writes exactly when the notice is an
\* informational "Copied" notice, whose text ends with the written string; a
\* warning goes with no write.
C10_OneNoticeMatchesWrite ==
    \A i \in DOMAIN pc :
        C10_Case(i) =>
            LET f == frame[i]
            IN  /\ Len(f.notices) = 1
                /\ Len(f.wrote) <= 1
                /\ f.notices[1].kind \in {"info", "warning"}
                /\ (f.wrote # <<>>) <=> (f.notices[1].kind = "info")
                /\ f.wrote # <<>> =>
                       f.notices[1].text \in {"Copied: " \o f.wrote[1],
                                              "Copied (fallback): " \o f.wrote[1]}
                /\ f.wrote # <<>> => clipboard = f.wrote[1]

C10_Witness ==
    \E i \in DOMAIN pc :
        /\ C10_Case(i)
        /\ frame[i].wrote = <<"a.b.x">>
        /\ frame[i].notices = <<Notice("info", "Copied: a.b.x")>>

====
